---- MODULE Spec2Model ----
(***************************************************************************)
(* Response repair-and-validate pipeline of the Bewell AI health analyzer: *)
(* the text cleaner (clean_json_string), the JSON parse it feeds, the      *)
(* retry loops around the model call and the count-reconciliation pass of  *)
(* the Streamlit front ends.                                               *)
(*                                                                         *)
(* Text is a sequence of one-character strings.                            *)
(***************************************************************************)
EXTENDS Integers, Sequences, FiniteSets, TLC

(***************************************************************************)
(* Bounds of the model.                                                    *)
(***************************************************************************)
MaxElems == 2
MaxBody == 3
MaxRetriesBound == 3
MaxList == 2
MaxCount == 3

(***************************************************************************)
(* Characters and str helpers (Python str.strip / startswith / endswith).  *)
(***************************************************************************)
Q == "\""
NL == "\n"
WS == {" ", NL}
\* the backtick character (written ^ here: a string of the module cannot hold a backtick)
BT == "^"
FENCE == <<BT, BT, BT>>
FENCE_JSON == <<BT, BT, BT, "j", "s", "o", "n">>
SIX_BACKTICKS == <<BT, BT, BT, BT, BT, BT>>

RECURSIVE lstrip(_)
lstrip(s) == IF s # <<>> /\ Head(s) \in WS THEN lstrip(Tail(s)) ELSE s

RECURSIVE rstrip(_)
rstrip(s) ==
    IF s # <<>> /\ s[Len(s)] \in WS THEN rstrip(SubSeq(s, 1, Len(s) - 1)) ELSE s

strip(s) == rstrip(lstrip(s))

startswith(s, p) == Len(s) >= Len(p) /\ SubSeq(s, 1, Len(p)) = p

endswith(s, p) == Len(s) >= Len(p) /\ SubSeq(s, Len(s) - Len(p) + 1, Len(s)) = p

\* s has p at position i
HasAt(s, i, p) == i + Len(p) - 1 <= Len(s) /\ SubSeq(s, i, i + Len(p) - 1) = p

\* p occurs somewhere in s
Contains(s, p) == \E i \in 1..(Len(s) + 1) : HasAt(s, i, p)

(***************************************************************************)
(* Regular-expression pieces (Python re, flags=re.MULTILINE where used).   *)
(***************************************************************************)
\* length of the run of whitespace starting at position i: greedy \s*
RECURSIVE WsRun(_, _)
WsRun(s, i) == IF i <= Len(s) /\ s[i] \in WS THEN 1 + WsRun(s, i + 1) ELSE 0

\* ^ under re.MULTILINE: start of the string or just after a newline
AtLineStart(s, i) == i = 1 \/ s[i - 1] = NL

\* $ under re.MULTILINE: end of the string or just before a newline
AtLineEnd(s, i) == i = Len(s) + 1 \/ (i <= Len(s) /\ s[i] = NL)

\* \s*$ at position i: the longest whitespace run after which $ matches,
\* or -1 when there is none
WsThenEol(s, i) ==
    LET ks == {k \in 0..WsRun(s, i) : AtLineEnd(s, i + k)}
    IN  IF ks = {} THEN -1 ELSE CHOOSE k \in ks : \A m \in ks : m <= k

\* re.sub(r',\s*}', '}', s) and re.sub(r',\s*]', ']', s), closer = } or ]
RECURSIVE SubTrailingComma(_, _, _)
SubTrailingComma(s, i, closer) ==
    IF i > Len(s) THEN <<>>
    ELSE LET j == i + 1 + WsRun(s, i + 1)
         IN  IF s[i] = "," /\ j <= Len(s) /\ s[j] = closer
             THEN <<closer>> \o SubTrailingComma(s, j + 1, closer)
             ELSE <<s[i]>> \o SubTrailingComma(s, i + 1, closer)

RemoveTrailingCommas(s) ==
    SubTrailingComma(SubTrailingComma(s, 1, "}"), 1, "]")

\* re.sub(r'^```json\s*|```\s*$', '', s, flags=re.MULTILINE)
RECURSIVE SubFenceApp(_, _)
SubFenceApp(s, i) ==
    IF i > Len(s) THEN <<>>
    ELSE IF AtLineStart(s, i) /\ HasAt(s, i, FENCE_JSON)
         THEN SubFenceApp(s, i + 7 + WsRun(s, i + 7))
    ELSE IF HasAt(s, i, FENCE) /\ WsThenEol(s, i + 3) >= 0
         THEN SubFenceApp(s, i + 3 + WsThenEol(s, i + 3))
    ELSE <<s[i]>> \o SubFenceApp(s, i + 1)

\* re.sub(r'^``````\s*$', '', s, flags=re.MULTILINE)
RECURSIVE SubFenceApp2(_, _)
SubFenceApp2(s, i) ==
    IF i > Len(s) THEN <<>>
    ELSE IF AtLineStart(s, i) /\ HasAt(s, i, SIX_BACKTICKS)
            /\ WsThenEol(s, i + 6) >= 0
         THEN SubFenceApp2(s, i + 6 + WsThenEol(s, i + 6))
    ELSE <<s[i]>> \o SubFenceApp2(s, i + 1)

(***************************************************************************)
(* clean_json_string, one operator per variant of the repository.          *)
(***************************************************************************)
\* app.py and newApp.py
clean_json_string_app(json_string) ==
    RemoveTrailingCommas(SubFenceApp(strip(json_string), 1))

\* app2.py
clean_json_string_app2(json_string) ==
    RemoveTrailingCommas(SubFenceApp2(strip(json_string), 1))

\* health_analyzer.py, monthly_analyzer.py and monthly_report.py
clean_json_string_cli(json_string) ==
    LET s0 == strip(json_string)
        s1 == IF startswith(s0, FENCE_JSON)
              THEN lstrip(SubSeq(s0, Len(FENCE_JSON) + 1, Len(s0)))
              ELSE IF startswith(s0, FENCE)
                   THEN lstrip(SubSeq(s0, Len(FENCE) + 1, Len(s0)))
                   ELSE s0
        s2 == IF endswith(s1, FENCE)
              THEN rstrip(SubSeq(s1, 1, Len(s1) - Len(FENCE)))
              ELSE s1
    IN  RemoveTrailingCommas(s2)

CleanerVariants == {"app", "app2", "cli"}

clean_json_string(variant, json_string) ==
    CASE variant = "app" -> clean_json_string_app(json_string)
      [] variant = "app2" -> clean_json_string_app2(json_string)
      [] variant = "cli" -> clean_json_string_cli(json_string)

(***************************************************************************)
(* json.loads over the characters the model's texts are made of: strings   *)
(* without escapes, numbers written with the digits 1 and 2, arrays and    *)
(* objects.  A scan returns the position after what it read, 0 on failure. *)
(***************************************************************************)
Digits == {"1", "2"}

SkipWs(s, i) == i + WsRun(s, i)

\* i is the position after the opening quote; a control character (newline)
\* inside a string is rejected, as by the strict decoder
RECURSIVE ScanString(_, _)
ScanString(s, i) ==
    IF i > Len(s) THEN 0
    ELSE IF s[i] = Q THEN i + 1
    ELSE IF s[i] = NL THEN 0
    ELSE ScanString(s, i + 1)

RECURSIVE ScanDigits(_, _)
ScanDigits(s, i) ==
    IF i <= Len(s) /\ s[i] \in Digits THEN ScanDigits(s, i + 1) ELSE i

RECURSIVE ParseValue(_, _)
RECURSIVE ParseElements(_, _)
RECURSIVE ParseMembers(_, _)

ParseValue(s, i) ==
    IF i > Len(s) THEN 0
    ELSE CASE s[i] = Q -> ScanString(s, i + 1)
           [] s[i] \in Digits -> ScanDigits(s, i + 1)
           [] s[i] = "[" ->
                LET j == SkipWs(s, i + 1)
                IN  IF j <= Len(s) /\ s[j] = "]" THEN j + 1
                    ELSE ParseElements(s, j)
           [] s[i] = "{" ->
                LET j == SkipWs(s, i + 1)
                IN  IF j <= Len(s) /\ s[j] = "}" THEN j + 1
                    ELSE ParseMembers(s, j)
           [] OTHER -> 0

\* i is at the start of an array element
ParseElements(s, i) ==
    LET e == ParseValue(s, i)
        j == SkipWs(s, e)
    IN  IF e = 0 \/ j > Len(s) THEN 0
        ELSE IF s[j] = "]" THEN j + 1
        ELSE IF s[j] = "," THEN ParseElements(s, SkipWs(s, j + 1))
        ELSE 0

\* i is at the start of an object key
ParseMembers(s, i) ==
    IF i > Len(s) \/ s[i] # Q THEN 0
    ELSE LET k == ScanString(s, i + 1)
             c == SkipWs(s, k)
             e == ParseValue(s, SkipWs(s, c + 1))
             j == SkipWs(s, e)
         IN  IF k = 0 \/ c > Len(s) \/ s[c] # ":" THEN 0
             ELSE IF e = 0 \/ j > Len(s) THEN 0
             ELSE IF s[j] = "}" THEN j + 1
             ELSE IF s[j] = "," THEN ParseMembers(s, SkipWs(s, j + 1))
             ELSE 0

\* the text is one JSON value, whitespace around it allowed
JsonValid(s) ==
    LET e == ParseValue(s, SkipWs(s, 1))
    IN  e # 0 /\ SkipWs(s, e) = Len(s) + 1

\* the document a valid text denotes: the text without the whitespace that
\* stands outside its strings
RECURSIVE Canon(_, _, _)
Canon(s, i, inString) ==
    IF i > Len(s) THEN <<>>
    ELSE IF s[i] = Q THEN <<Q>> \o Canon(s, i + 1, ~inString)
    ELSE IF ~inString /\ s[i] \in WS THEN Canon(s, i + 1, inString)
    ELSE <<s[i]>> \o Canon(s, i + 1, inString)

\* json.loads: ok is FALSE where it raises JSONDecodeError
json_loads(s) ==
    IF JsonValid(s) THEN [ok |-> TRUE, doc |-> Canon(s, 1, FALSE)]
    ELSE [ok |-> FALSE, doc |-> <<>>]

(***************************************************************************)
(* State.                                                                  *)
(*   cleaner run:   cleaner, form, body, json_string, stripped_string,     *)
(*                  cleaned                                                *)
(*   post-processing of main: main_app (whose main), parsed (lab_analysis  *)
(*                  as parsed), lab_analysis, passes (runs of the pass),   *)
(*                  warned, post_error, rendered                           *)
(*   retry loop:    loop (whose loop), prompt (the section asked for),     *)
(*                  schema, max_retries, attempt (index of the next        *)
(*                  iteration), pc, result, error (the exception raised to *)
(*                  the caller), data (the parsed data returned or kept),  *)
(*                  raw_response_for_debugging, final_error_message;       *)
(*                  calls records what each model invocation gave, pauses  *)
(*                  the seconds slept after each                           *)
(*   file handling of main: lab_report_files, health_assessment_file (the  *)
(*                  uploads), file_index (the next lab report of the       *)
(*                  loop), raw_lab_report_inputs,                          *)
(*                  raw_health_assessment_input, stage (the position in    *)
(*                  main), prompts_sent (the prompts the model was invoked *)
(*                  with)                                                  *)
(***************************************************************************)
VARIABLES cleaner, form, body, json_string, stripped_string, cleaned,
          main_app, parsed, lab_analysis, passes, warned, post_error, rendered,
          loop, prompt, schema, max_retries, attempt, pc, result, error, data,
          raw_response_for_debugging, final_error_message, calls, pauses,
          reports, all_raw_responses_for_debugging, cancel_requested_at,
          section, final_combined_output, invocations, attempted,
          lab_report_files, health_assessment_file, file_index,
          raw_lab_report_inputs, raw_health_assessment_input, stage,
          prompts_sent

cleanVars == <<cleaner, form, body, json_string, stripped_string, cleaned>>

countVars == <<main_app, parsed, lab_analysis, passes, warned, post_error, rendered>>

retryVars ==
    <<loop, prompt, schema, max_retries, attempt, pc, result, error, data,
      raw_response_for_debugging, final_error_message, calls, pauses,
      reports, all_raw_responses_for_debugging, cancel_requested_at>>

mainVars == <<section, final_combined_output, invocations, attempted>>

extractVars ==
    <<lab_report_files, health_assessment_file, file_index,
      raw_lab_report_inputs, raw_health_assessment_input, stage, prompts_sent>>

vars == <<cleanVars, countVars, retryVars, mainVars, extractVars>>

\* the parts of the state a specification does not run
IdleClean ==
    /\ cleaner = "none"
    /\ form = "none"
    /\ body = <<>>
    /\ json_string = <<>>
    /\ stripped_string = <<>>
    /\ cleaned = FALSE

IdleCounts ==
    /\ main_app = "none"
    /\ parsed = <<>>
    /\ lab_analysis = <<>>
    /\ passes = 0
    /\ warned = FALSE
    /\ post_error = FALSE
    /\ rendered = FALSE

IdleMain ==
    /\ section = 0
    /\ final_combined_output = <<>>
    /\ invocations = 0
    /\ attempted = <<>>

IdleExtract ==
    /\ lab_report_files = <<>>
    /\ health_assessment_file = <<>>
    /\ file_index = 0
    /\ raw_lab_report_inputs = <<>>
    /\ raw_health_assessment_input = <<>>
    /\ stage = "none"
    /\ prompts_sent = <<>>

IdleRetry ==
    /\ loop = "none"
    /\ prompt = "none"
    /\ schema = [type |-> "any", required |-> {}]
    /\ max_retries = 0
    /\ attempt = 0
    /\ pc = "idle"
    /\ result = "none"
    /\ error = "none"
    /\ data = <<>>
    /\ raw_response_for_debugging = <<>>
    /\ final_error_message = ""
    /\ calls = <<>>
    /\ pauses = <<>>
    /\ reports = <<>>
    /\ all_raw_responses_for_debugging = <<>>
    /\ cancel_requested_at = -1

(***************************************************************************)
(* Inputs of the cleaner.                                                  *)
(***************************************************************************)
SeqsUpTo(S, n) == UNION {[1..k -> S] : k \in 0..n}

BodyChars == {"{", "}", "[", "]", ",", "1", " ", NL, BT}

\* bodies of a fenced response: no fence inside, no whitespace at either
\* end, nothing the trailing-comma repair would touch
Bodies ==
    {b \in SeqsUpTo(BodyChars, MaxBody) :
        /\ ~Contains(b, FENCE)
        /\ strip(b) = b
        /\ RemoveTrailingCommas(b) = b}

Fenced(opening, b) == opening \o <<NL>> \o b \o <<NL>> \o FENCE

\* valid JSON documents: scalars, and arrays and objects of them, bare or
\* wrapped once more
JsonStrings ==
    {<<Q, Q>>, <<Q, "a", Q>>, <<Q, ",", "]", Q>>, <<Q, ",", "}", Q>>,
     <<Q, ",", " ", "}", Q>>}

JsonScalars == {<<"1">>} \cup JsonStrings

RECURSIVE JoinElements(_)
JoinElements(es) ==
    IF es = <<>> THEN <<>>
    ELSE IF Len(es) = 1 THEN es[1]
    ELSE es[1] \o <<",">> \o JoinElements(Tail(es))

\* the i-th key of an object is i times the letter k
KeyOf(i) == <<Q>> \o [n \in 1..i |-> "k"] \o <<Q>>

ArrayOf(es) == <<"[">> \o JoinElements(es) \o <<"]">>

ObjectOf(es) ==
    <<"{">> \o JoinElements([i \in 1..Len(es) |-> KeyOf(i) \o <<":">> \o es[i]])
            \o <<"}">>

JsonContainers ==
    LET flat == {ArrayOf(es) : es \in SeqsUpTo(JsonScalars, MaxElems)}
                \cup {ObjectOf(es) : es \in SeqsUpTo(JsonScalars, MaxElems)}
    IN  flat \cup {ArrayOf(<<c>>) : c \in flat} \cup {ObjectOf(<<c>>) : c \in flat}

JsonDocs == JsonScalars \cup JsonContainers

\* position i of a document stands inside one of its strings
InString(s, i) == Cardinality({j \in 1..(i - 1) : s[j] = Q}) % 2 = 1

\* the closing braces and brackets of a document
Closers(s) == {i \in 1..Len(s) : s[i] \in {"}", "]"} /\ ~InString(s, i)}

InsertAt(s, i, x) == SubSeq(s, 1, i - 1) \o x \o SubSeq(s, i, Len(s))

\* a document with one trailing comma put before one of its closers
WithTrailingComma(s) ==
    {InsertAt(s, i, x) : i \in Closers(s), x \in {<<",">>, <<",", " ">>}}

\* texts with a fence marker inside: on an interior line of its own, at the
\* start or at the end of an interior line, and in the middle of a line
InteriorBodies ==
    {<<"1", NL>> \o f \o <<NL, "1">> : f \in {FENCE, FENCE_JSON}}
    \cup {<<"1", NL>> \o f \o <<"1", NL, "1">> : f \in {FENCE, FENCE_JSON}}
    \cup {<<"1", NL, "1">> \o FENCE \o <<NL, "1">>,
          <<"1", NL, "1">> \o FENCE \o <<"1", NL, "1">>}

CleanerInputs ==
    {[form |-> "plain", body |-> d, json_string |-> d] : d \in JsonDocs}
    \cup
    UNION {{[form |-> "interior", body |-> b, json_string |-> t] :
               t \in {b, Fenced(FENCE_JSON, b), Fenced(FENCE, b)}} :
           b \in InteriorBodies}
    \cup
    {[form |-> "fence_json", body |-> b, json_string |-> Fenced(FENCE_JSON, b)] :
        b \in Bodies}
    \cup
    {[form |-> "fence_plain", body |-> b, json_string |-> Fenced(FENCE, b)] :
        b \in Bodies}
    \cup
    UNION {{[form |-> "comma", body |-> d, json_string |-> t] :
               t \in WithTrailingComma(d)} : d \in JsonContainers}

(***************************************************************************)
(* The cleaner applied to one input.                                       *)
(***************************************************************************)
InitClean ==
    /\ cleaner \in CleanerVariants
    /\ \E in \in CleanerInputs :
          /\ form = in.form
          /\ body = in.body
          /\ json_string = in.json_string
    /\ stripped_string = <<>>
    /\ cleaned = FALSE
    /\ IdleCounts
    /\ IdleRetry
    /\ IdleMain
    /\ IdleExtract

Clean(variant) ==
    /\ ~cleaned
    /\ cleaner = variant
    /\ stripped_string' = clean_json_string(variant, json_string)
    /\ cleaned' = TRUE
    /\ UNCHANGED <<cleaner, form, body, json_string>>
    /\ UNCHANGED <<countVars, retryVars, mainVars, extractVars>>

CleanApp == Clean("app")

CleanApp2 == Clean("app2")

CleanCli == Clean("cli")

NextClean == CleanApp \/ CleanApp2 \/ CleanCli

SpecClean == InitClean /\ [][NextClean]_vars

(***************************************************************************)
(* C7: Fence stripping correctness: cleaning a fenced body (json-tagged    *)
(* or untagged opening fence) returns exactly the body, with no fence      *)
(* marker left, for every variant of clean_json_string.                    *)
(***************************************************************************)
C7_FenceStripping ==
    (cleaned /\ form \in {"fence_json", "fence_plain"}) =>
        (stripped_string = body /\ ~Contains(stripped_string, FENCE))

(***************************************************************************)
(* C8: Trailing-comma repair: a valid document with one comma inserted     *)
(* before a closing brace or bracket is cleaned back to the document: the  *)
(* comma is gone, nothing else is, and the result parses to the original.  *)
(***************************************************************************)
C8_TrailingCommaRepair ==
    (cleaned /\ form = "comma") =>
        /\ stripped_string = body
        /\ json_loads(stripped_string).ok
        /\ json_loads(stripped_string).doc = json_loads(body).doc

(***************************************************************************)
(* Count reconciliation: the post-processing pass of main.  A dict is a    *)
(* function from its keys; a key it lacks is outside its domain.           *)
(***************************************************************************)
MaxPasses == 2

\* Python's None, where an integer count is expected
None == -1

Statuses == {"optimal", "keep_in_mind", "attention_needed"}

\* a biomarker entry: one of the three statuses, another status, or none
Entries ==
    {[status |-> st] : st \in Statuses \cup {"not_performed"}}
    \cup {[name |-> "x"]}

LabDocs ==
    LET countPart == {<<>>} \cup
            {("biomarkers_tested_count" :> m) : m \in 0..MaxCount}
        summaryPart == {<<>>} \cup
            {("biomarker_categories_summary" :>
                 [optimal_count |-> a, keep_in_mind_count |-> b,
                  attention_needed_count |-> c]) :
                 a \in 0..MaxList, b \in 0..MaxList, c \in 0..MaxList}
        listPart == {<<>>} \cup
            {("detailed_biomarkers" :> l) : l \in SeqsUpTo(Entries, MaxList)}
    IN  {c @@ sm @@ l : c \in countPart, sm \in summaryPart, l \in listPart}

\* dict truthiness: a dict is falsy when empty
Truthy(d) == DOMAIN d # {}

\* lab_analysis.get("detailed_biomarkers", [])
Detailed(lab) ==
    IF "detailed_biomarkers" \in DOMAIN lab THEN lab.detailed_biomarkers
    ELSE <<>>

\* lab_analysis.get("biomarkers_tested_count")
ReportedCount(lab) ==
    IF "biomarkers_tested_count" \in DOMAIN lab THEN lab.biomarkers_tested_count
    ELSE None

HasSummary(lab) == "biomarker_categories_summary" \in DOMAIN lab

\* sum(1 for bm in detailed_biomarkers if bm.get("status") == st)
Tally(list, st) ==
    Cardinality({i \in 1..Len(list) : "status" \in DOMAIN list[i]
                                      /\ list[i].status = st})

\* variant of CountMismatch: the count is compared one past the list length
CountMismatchOffByOne(lab) == ReportedCount(lab) # Len(Detailed(lab)) + 1

\* lab_analysis.get("biomarkers_tested_count") != biomarkers_count
CountMismatch(lab) == ReportedCount(lab) # Len(Detailed(lab))

\* app.py: ... is None or biomarkers_count > 0
WorthCorrecting(lab) == ReportedCount(lab) = None \/ Len(Detailed(lab)) > 0

\* variant of SetCount: a list longer than the reported count is cut down to
\* it instead of the count being raised
SetCountTruncating(lab) ==
    IF "detailed_biomarkers" \in DOMAIN lab /\ ReportedCount(lab) # None
       /\ ReportedCount(lab) < Len(Detailed(lab))
    THEN [lab EXCEPT !.detailed_biomarkers = SubSeq(@, 1, ReportedCount(lab))]
    ELSE ("biomarkers_tested_count" :> Len(Detailed(lab))) @@ lab

\* lab_analysis["biomarkers_tested_count"] = biomarkers_count
SetCount(lab) == ("biomarkers_tested_count" :> Len(Detailed(lab))) @@ lab

SetSummary(lab) ==
    [lab EXCEPT !.biomarker_categories_summary =
        [@ EXCEPT !.optimal_count = Tally(Detailed(lab), "optimal"),
                  !.keep_in_mind_count = Tally(Detailed(lab), "keep_in_mind"),
                  !.attention_needed_count =
                      Tally(Detailed(lab), "attention_needed")]]

\* app.py and app2.py: the dict must be truthy, the count is corrected only
\* when missing or when the list is not empty, the summary only when present
RepairsApp(lab) == Truthy(lab) /\ CountMismatch(lab) /\ WorthCorrecting(lab)

ReconcileApp(lab) ==
    IF RepairsApp(lab)
    THEN IF HasSummary(lab) THEN SetSummary(SetCount(lab)) ELSE SetCount(lab)
    ELSE lab

\* newApp.py: every mismatch is corrected; writing the sub-counts of a
\* missing summary raises KeyError after the count has been written
RepairsNewApp(lab) == CountMismatch(lab)

\* variant of ReconcileNewApp: a mismatching count is moved one step towards
\* the list length instead of being set to it
ReconcileNewAppStepwise(lab) ==
    LET step == IF ReportedCount(lab) = None THEN 0
                ELSE IF ReportedCount(lab) < Len(Detailed(lab))
                     THEN ReportedCount(lab) + 1
                     ELSE ReportedCount(lab) - 1
        counted == ("biomarkers_tested_count" :> step) @@ lab
    IN  IF RepairsNewApp(lab)
        THEN IF HasSummary(lab) THEN SetSummary(counted) ELSE counted
        ELSE lab

ReconcileNewApp(lab) ==
    IF RepairsNewApp(lab)
    THEN IF HasSummary(lab) THEN SetSummary(SetCount(lab)) ELSE SetCount(lab)
    ELSE lab

RaisesNewApp(lab) == RepairsNewApp(lab) /\ ~HasSummary(lab)

InitCounts ==
    /\ main_app \in {"app", "newApp"}
    /\ parsed \in LabDocs
    /\ lab_analysis = parsed
    /\ passes = 0
    /\ warned = FALSE
    /\ post_error = FALSE
    /\ rendered = FALSE
    /\ IdleClean
    /\ IdleRetry
    /\ IdleMain
    /\ IdleExtract

\* app.py / app2.py main: reconcile, then show the output when any section
\* of it is populated
PostProcessApp ==
    /\ main_app = "app"
    /\ passes < MaxPasses
    /\ lab_analysis' = ReconcileApp(lab_analysis)
    /\ warned' = RepairsApp(lab_analysis)
    /\ post_error' = FALSE
    /\ rendered' = Truthy(lab_analysis)
    /\ passes' = passes + 1
    /\ UNCHANGED <<main_app, parsed>>
    /\ UNCHANGED <<cleanVars, retryVars, mainVars, extractVars>>

\* newApp.py main: reconcile inside try; on an exception the data is shown
\* as it then is
PostProcessNewApp ==
    /\ main_app = "newApp"
    /\ passes < MaxPasses
    /\ lab_analysis' = ReconcileNewApp(lab_analysis)
    /\ warned' = RepairsNewApp(lab_analysis)
    /\ post_error' = RaisesNewApp(lab_analysis)
    /\ rendered' = TRUE
    /\ passes' = passes + 1
    /\ UNCHANGED <<main_app, parsed>>
    /\ UNCHANGED <<cleanVars, retryVars, mainVars, extractVars>>

NextCounts == PostProcessApp \/ PostProcessNewApp

SpecCounts == InitCounts /\ [][NextCounts]_vars

\* the sub-counts of a document, when it has a summary
SubCountSum(lab) ==
    lab.biomarker_categories_summary.optimal_count
    + lab.biomarker_categories_summary.keep_in_mind_count
    + lab.biomarker_categories_summary.attention_needed_count

SubCountsAreTallies(lab) ==
    /\ lab.biomarker_categories_summary.optimal_count
           = Tally(Detailed(lab), "optimal")
    /\ lab.biomarker_categories_summary.keep_in_mind_count
           = Tally(Detailed(lab), "keep_in_mind")
    /\ lab.biomarker_categories_summary.attention_needed_count
           = Tally(Detailed(lab), "attention_needed")

AllCategorised(list) ==
    \A i \in 1..Len(list) :
        "status" \in DOMAIN list[i] /\ list[i].status \in Statuses

(***************************************************************************)
(* C3: Count repair correctness: a document whose list has N entries, all  *)
(* of the three statuses, and whose reported count is M # N, has after the *)
(* pass a reported count of N and sub-counts equal to the tallies, which   *)
(* sum to N.                                                               *)
(***************************************************************************)
C3_CountRepair ==
    (/\ passes >= 1
     /\ "detailed_biomarkers" \in DOMAIN parsed
     /\ AllCategorised(Detailed(parsed))
     /\ HasSummary(parsed)
     /\ ReportedCount(parsed) # None
     /\ ReportedCount(parsed) # Len(Detailed(parsed)))
    => /\ ReportedCount(lab_analysis) = Len(Detailed(parsed))
       /\ SubCountsAreTallies(lab_analysis)
       /\ SubCountSum(lab_analysis) = Len(Detailed(parsed))

(***************************************************************************)
(* C4: Sub-count sum invariant: in every rendered report the three         *)
(* sub-counts sum to biomarkers_tested_count.                              *)
(***************************************************************************)
C4_SubCountSum ==
    (rendered /\ HasSummary(lab_analysis)) =>
        SubCountSum(lab_analysis) = ReportedCount(lab_analysis)

(***************************************************************************)
(* C5: Idempotence on consistent documents: when the reported count is the *)
(* list length and the sub-counts are the tallies, the pass writes nothing *)
(* and reports no repair.                                                  *)
(***************************************************************************)
Consistent(lab) ==
    /\ "detailed_biomarkers" \in DOMAIN lab
    /\ ReportedCount(lab) = Len(Detailed(lab))
    /\ HasSummary(lab)
    /\ SubCountsAreTallies(lab)

C5_IdempotentOnConsistent ==
    (passes >= 1 /\ Consistent(parsed)) =>
        (lab_analysis = parsed /\ ~warned /\ ~post_error)

C5_Witness ==
    /\ passes >= 1
    /\ Consistent(parsed)
    /\ Len(Detailed(parsed)) >= 1
    /\ rendered

(***************************************************************************)
(* C6: Minimum-population padding, as claimed, for a list that must not be *)
(* empty (minimum count 1): a list parsed with fewer entries has exactly   *)
(* that many after the pass, the parsed entries first and unchanged, the   *)
(* appended ones marked generic, and the reported count raised to match.   *)
(***************************************************************************)
C6_MinimumPadding ==
    (/\ passes >= 1
     /\ "detailed_biomarkers" \in DOMAIN parsed
     /\ Len(Detailed(parsed)) < 1)
    => /\ Len(Detailed(lab_analysis)) = 1
       /\ \A i \in 1..Len(Detailed(parsed)) :
              Detailed(lab_analysis)[i] = Detailed(parsed)[i]
       /\ \A i \in (Len(Detailed(parsed)) + 1)..Len(Detailed(lab_analysis)) :
              "generic" \in DOMAIN Detailed(lab_analysis)[i]
       /\ ReportedCount(lab_analysis) = 1

(***************************************************************************)
(* C6 as amended: the pass never pads.  A list parsed with J entries has   *)
(* the same J entries after the pass, none appended, none removed, and the *)
(* reported count is either what it was or J.                              *)
(***************************************************************************)
C6_NoPadding ==
    passes >= 1 =>
        /\ ("detailed_biomarkers" \in DOMAIN lab_analysis)
               = ("detailed_biomarkers" \in DOMAIN parsed)
        /\ Detailed(lab_analysis) = Detailed(parsed)
        /\ ReportedCount(lab_analysis)
               \in {ReportedCount(parsed), Len(Detailed(parsed))}

C6_Witness ==
    /\ passes >= 1
    /\ "detailed_biomarkers" \in DOMAIN parsed
    /\ Detailed(parsed) = <<>>
    /\ ReportedCount(parsed) # 0
    /\ ReportedCount(lab_analysis) = 0
    /\ Detailed(lab_analysis) = <<>>

(***************************************************************************)
(* Retry loops: call_gemini_with_retry of app.py, app2.py and              *)
(* monthly_report.py, and the inline loop of newApp.py main.               *)
(***************************************************************************)
CallGeminiLoops == {"app", "app2", "monthly"}

Loops == CallGeminiLoops \cup {"newApp"}

\* newApp.py: MAX_RETRIES = 3
MAX_RETRIES == 3

Sections == {"biomarkers", "four_pillars", "supplements"}

\* top-level keys of the three response templates, one letter each
LAB_ANALYSIS == <<"L">>
FOUR_PILLARS == <<"F">>
SUPPLEMENTS == <<"S">>

\* the top-level section the prompt of a call asks for
RequiredSection(p) ==
    CASE p = "biomarkers" -> LAB_ANALYSIS
      [] p = "four_pillars" -> FOUR_PILLARS
      [] p = "supplements" -> SUPPLEMENTS

\* app2.py: schema_biomarkers, schema_4pillars and schema_supplements are the
\* response templates themselves, loaded as JSON: their one top-level member
\* is the section name, which is no JSON Schema keyword, so as schemas they
\* have no type and no required list
TemplateSchema(p) ==
    [members |-> {RequiredSection(p)}, type |-> "any", required |-> {}]

\* a schema a caller of call_gemini_with_retry can pass that does require
\* the section
StrictSchema(p) ==
    [members |-> {"type", "required"}, type |-> "object",
     required |-> {RequiredSection(p)}]

IsObject(doc) == doc # <<>> /\ doc[1] = "{"

\* keys of a parsed object: the strings at depth 1 that a colon follows
RECURSIVE KeysFrom(_, _, _)
KeysFrom(doc, i, depth) ==
    IF i > Len(doc) THEN {}
    ELSE IF doc[i] = Q
         THEN LET j == ScanString(doc, i + 1)
              IN  IF depth = 1 /\ j <= Len(doc) /\ doc[j] = ":"
                  THEN {SubSeq(doc, i + 1, j - 2)} \cup KeysFrom(doc, j, depth)
                  ELSE KeysFrom(doc, j, depth)
    ELSE IF doc[i] \in {"{", "["} THEN KeysFrom(doc, i + 1, depth + 1)
    ELSE IF doc[i] \in {"}", "]"} THEN KeysFrom(doc, i + 1, depth - 1)
    ELSE KeysFrom(doc, i + 1, depth)

TopLevelKeys(doc) == IF IsObject(doc) THEN KeysFrom(doc, 1, 0) ELSE {}

\* app2.py validate_json: jsonschema.validate checks the keywords the schema
\* has; "required" constrains objects only
validate_json(doc, sch) ==
    /\ sch.type = "object" => IsObject(doc)
    /\ IsObject(doc) => sch.required \subseteq TopLevelKeys(doc)

\* what the model can answer
ObjectWith(key) == <<"{", Q>> \o key \o <<Q, ":", "1", "}">>

ResponseTexts ==
    {<<>>, <<" ">>, FENCE, <<"{">>, <<"{", "}">>,
     ObjectWith(LAB_ANALYSIS), ObjectWith(FOUR_PILLARS), ObjectWith(SUPPLEMENTS),
     Fenced(FENCE_JSON, ObjectWith(LAB_ANALYSIS))}

\* exceptions of the provider: reading response.text of a blocked response,
\* and generate_content itself failing (network, timeout)
ProviderErrors == {"blocked", "invoke_error"}

ERR_JSON == "Failed to get valid JSON"
ERR_EMPTY == "Model returned an empty response."
ERR_MAX == "Max retries reached without a successful response."
MSG_JSON == "Invalid JSON received"
ERR_ST_CODE == "st.code() got an unexpected keyword argument 'label'"

\* the exceptions a handler can leave with.  Before it raises ERR_JSON the
\* handler of the last JSON error calls st.code(..., label=...); whether
\* the installed streamlit takes that keyword is not decided by this
\* repository, so the call either returns or raises a TypeError, and then
\* that TypeError leaves the function in place of ERR_JSON
Raised(err) == IF err = ERR_JSON THEN {ERR_JSON, ERR_ST_CODE} ELSE {err}

CleanerOf(lp) ==
    CASE lp \in {"app", "newApp"} -> "app"
      [] lp = "app2" -> "app2"
      [] lp = "monthly" -> "cli"

\* time.sleep at the top of an iteration
PreSleep(lp, att) ==
    IF att > 0
    THEN CASE lp \in {"app", "app2"} -> 1
           [] lp = "monthly" -> 2
           [] lp = "newApp" -> 0
    ELSE 0

\* time.sleep in the except branches when attempts remain
RetrySleep(lp) ==
    CASE lp \in {"app", "app2", "newApp"} -> 2
      [] lp = "monthly" -> 0

\* variant of AttemptsRemain: the last attempt is taken to be one earlier
AttemptsRemainOffByOne(att, max) == att < max - 2

\* attempt < max_retries - 1
AttemptsRemain(att, max) == att < max - 1

\* variant of Outcome: the parsed document is not validated
OutcomeUnvalidated(lp, sch, text) ==
    IF text = <<>> THEN "empty"
    ELSE IF ~json_loads(clean_json_string(CleanerOf(lp), text)).ok
         THEN "json_error"
         ELSE "ok"

\* what one iteration makes of the text the model returned
Outcome(lp, sch, text) ==
    IF text = <<>> THEN "empty"
    ELSE LET r == json_loads(clean_json_string(CleanerOf(lp), text))
         IN  IF ~r.ok THEN "json_error"
             ELSE IF lp = "app2" /\ ~validate_json(r.doc, sch)
                  THEN "schema_invalid"
                  ELSE "ok"

ParsedData(lp, text) == json_loads(clean_json_string(CleanerOf(lp), text)).doc

\* variant of OnOk: the return (or break) is missing and the loop goes on
OnOkGoesOn(lp) ==
    [next |-> "retry", result |-> "none", error |-> "none", sleep |-> 0]

\* return json.loads(...), raw_response_for_debugging / break
OnOk(lp) ==
    [next |-> "stop", result |-> "success", error |-> "none", sleep |-> 0]

\* except json.JSONDecodeError
OnJsonError(lp, att, max) ==
    IF AttemptsRemain(att, max)
    THEN [next |-> "retry", result |-> "none", error |-> "none",
          sleep |-> RetrySleep(lp)]
    ELSE IF lp = "newApp"
         THEN [next |-> "retry", result |-> "none", error |-> "none", sleep |-> 0]
         ELSE [next |-> "stop", result |-> "failed", error |-> ERR_JSON,
               sleep |-> 0]

\* variant of OnException: every loop stops at the first exception, as the
\* loop of newApp.py does
OnExceptionStops(lp, att, max, exc) ==
    [next |-> "stop", result |-> "failed",
     error |-> IF lp = "newApp" THEN "none" ELSE exc, sleep |-> 0]

\* except Exception: call_gemini_with_retry retries while attempts remain
\* and re-raises on the last attempt; the loop of newApp.py breaks
OnException(lp, att, max, exc) ==
    IF lp = "newApp"
    THEN [next |-> "stop", result |-> "failed", error |-> "none", sleep |-> 0]
    ELSE IF AttemptsRemain(att, max)
         THEN [next |-> "retry", result |-> "none", error |-> "none",
               sleep |-> RetrySleep(lp)]
         ELSE [next |-> "stop", result |-> "failed", error |-> exc, sleep |-> 0]

\* variant of OnSchemaInvalid: the rejected data is returned all the same
OnSchemaInvalidReturns(lp) ==
    [next |-> "stop", result |-> "success", error |-> "none", sleep |-> 0]

\* app2.py: st.warning("JSON validation failed"), then the next iteration
OnSchemaInvalid(lp) ==
    [next |-> "retry", result |-> "none", error |-> "none", sleep |-> 0]

\* variant of Decision: an exception of the invocation itself ends every loop
DecisionTimeoutFatal(lp, att, max, out) ==
    CASE out = "ok" -> OnOk(lp)
      [] out = "json_error" -> OnJsonError(lp, att, max)
      [] out = "empty" -> OnException(lp, att, max, ERR_EMPTY)
      [] out = "schema_invalid" -> OnSchemaInvalid(lp)
      [] out = "blocked" -> OnException(lp, att, max, out)
      [] out = "invoke_error" ->
             [next |-> "stop", result |-> "failed",
              error |-> IF lp = "newApp" THEN "none" ELSE out, sleep |-> 0]

Decision(lp, att, max, out) ==
    CASE out = "ok" -> OnOk(lp)
      [] out = "json_error" -> OnJsonError(lp, att, max)
      [] out = "empty" -> OnException(lp, att, max, ERR_EMPTY)
      [] out = "schema_invalid" -> OnSchemaInvalid(lp)
      [] out \in ProviderErrors -> OnException(lp, att, max, out)

\* final_error_message of newApp.py after an iteration
ErrorMessage(lp, out, previous) ==
    IF lp # "newApp" THEN previous
    ELSE CASE out = "ok" -> previous
           [] out = "json_error" -> MSG_JSON
           [] out = "empty" -> ERR_EMPTY
           [] OTHER -> out

\* what the loop shows for an attempt (st.warning, st.error): the reason of
\* its failure, "none" for an attempt that succeeded
WARN_JSON == "Invalid JSON"
WARN_SCHEMA == "JSON validation failed"

\* variant of Report: an attempt that is retried is not reported
ReportSilent(lp, att, max, out) ==
    IF out \in {"json_error", "empty"} \cup ProviderErrors
       /\ lp # "newApp" /\ AttemptsRemain(att, max)
    THEN "none"
    ELSE CASE out = "ok" -> "none"
           [] out = "json_error" -> IF lp = "newApp" THEN MSG_JSON ELSE ERR_JSON
           [] out = "empty" -> ERR_EMPTY
           [] out = "schema_invalid" -> WARN_SCHEMA
           [] out \in ProviderErrors -> out

Report(lp, att, max, out) ==
    CASE out = "ok" -> "none"
      [] out = "json_error" ->
             IF lp = "newApp" THEN MSG_JSON
             ELSE IF AttemptsRemain(att, max) THEN WARN_JSON ELSE ERR_JSON
      [] out = "empty" -> ERR_EMPTY
      [] out = "schema_invalid" -> WARN_SCHEMA
      [] out \in ProviderErrors -> out

\* a parsed document is falsy when it is {}, [] or ""
TruthyData(doc) == doc \notin {<<"{", "}">>, <<"[", "]">>, <<Q, Q>>, <<>>}

\* if data: final_combined_output.update(data) raises for a number or a
\* string, and the except branch of the section is taken before the debug
\* entry is written (arrays are not among the answers modelled)
UpdateRaises(doc) == TruthyData(doc) /\ doc[1] \in Digits \cup {Q}

\* main of app.py and app2.py: all_raw_responses_for_debugging[...] is
\* assigned after call_gemini_with_retry has returned, so not when it raised
\* variant of DebugRecord: the raw text is entered whatever the outcome
DebugRecordAlways(lp, part, out, text, record) ==
    IF lp \in {"app", "app2"} THEN (part :> text) @@ record ELSE record

DebugRecord(lp, part, out, text, record) ==
    IF lp \in {"app", "app2"} /\ out = "ok" /\ ~UpdateRaises(ParsedData(lp, text))
    THEN (part :> text) @@ record
    ELSE record

InitRetry ==
    /\ loop \in Loops
    /\ prompt \in Sections
    /\ schema \in (IF loop = "app2"
                   THEN {TemplateSchema(prompt), StrictSchema(prompt)}
                   ELSE {TemplateSchema(prompt)})
    /\ max_retries \in (IF loop = "newApp" THEN {MAX_RETRIES}
                        ELSE 0..MaxRetriesBound)
    /\ attempt = 0
    /\ pc = "loop"
    /\ result = "none"
    /\ error = "none"
    /\ data = <<>>
    /\ raw_response_for_debugging = <<>>
    /\ final_error_message = ""
    /\ calls = <<>>
    /\ pauses = <<>>
    /\ reports = <<>>
    /\ all_raw_responses_for_debugging = <<>>
    /\ cancel_requested_at = None
    /\ IdleClean
    /\ IdleCounts
    /\ IdleMain
    /\ IdleExtract

\* variant of NextAttempt: a retry does not use up an attempt
NextAttemptStuck(att, next) == att

\* the for loop gives attempt its next value when the body has neither
\* returned, raised nor broken
NextAttempt(att, next) == IF next = "stop" THEN att ELSE att + 1

\* variant of RawResponse: the text of an attempt is added to what is held
RawResponseAccumulated(call, previous) ==
    IF call.kind = "text" THEN previous \o call.text ELSE previous

\* raw_response_for_debugging = full_response_text: reached only when the
\* invocation and the reading of its text have not raised
RawResponse(call, previous) ==
    IF call.kind = "text" THEN call.text ELSE previous

\* variant of InRange: the loop stops invoking once cancellation is requested
InRangeUnlessCancelled(att, max, requested) == att < max /\ requested = -1

\* for attempt in range(max_retries): the loops take the next value of the
\* range whether or not the application has requested cancellation, which
\* they never test
InRange(att, max, requested) == att < max

\* the surrounding application requests cancellation while the loop runs;
\* the request is noted with the number of invocations made so far
RequestCancel ==
    /\ pc = "loop"
    /\ cancel_requested_at = None
    /\ cancel_requested_at' = Len(calls)
    /\ UNCHANGED <<loop, prompt, schema, max_retries, attempt, pc, result,
                   error, data, raw_response_for_debugging,
                   final_error_message, calls, pauses, reports,
                   all_raw_responses_for_debugging>>
    /\ UNCHANGED <<cleanVars, countVars, mainVars, extractVars>>

\* one iteration of the loop: the pause before it, the model call, and what
\* the try block and its handlers do with the outcome
Iteration(call, out) ==
    LET d == Decision(loop, attempt, max_retries, out)
        slept == IF attempt > 0
                 THEN [pauses EXCEPT ![Len(pauses)] = @ + PreSleep(loop, attempt)]
                 ELSE pauses
    IN  /\ pc = "loop"
        /\ InRange(attempt, max_retries, cancel_requested_at)
        /\ calls' = Append(calls, call)
        /\ pauses' = Append(slept, d.sleep)
        /\ raw_response_for_debugging' =
               RawResponse(call, raw_response_for_debugging)
        /\ data' = IF out = "ok" THEN ParsedData(loop, call.text) ELSE data
        /\ final_error_message' = ErrorMessage(loop, out, final_error_message)
        /\ reports' = Append(reports, Report(loop, attempt, max_retries, out))
        /\ all_raw_responses_for_debugging' =
               DebugRecord(loop, prompt, out, call.text,
                           all_raw_responses_for_debugging)
        /\ result' = d.result
        /\ error' \in Raised(d.error)
        /\ pc' = IF d.next = "stop" THEN "done" ELSE "loop"
        /\ attempt' = NextAttempt(attempt, d.next)
        /\ UNCHANGED <<loop, prompt, schema, max_retries, cancel_requested_at>>
        /\ UNCHANGED <<cleanVars, countVars, mainVars, extractVars>>

\* the model returns a text
AttemptText ==
    \E text \in ResponseTexts :
        Iteration([kind |-> "text", text |-> text], Outcome(loop, schema, text))

\* the model call or the reading of its text raises
AttemptRaises ==
    \E exc \in ProviderErrors :
        Iteration([kind |-> exc, text |-> <<>>], exc)

\* variant of RangeExhausted: the end of the range is missed
RangeExhaustedMissed(att, max) == att > max

\* for attempt in range(max_retries): no value is left for the next iteration
RangeExhausted(att, max) == att >= max

\* the for loop runs out: call_gemini_with_retry raises
\* Exception("Max retries reached ..."), newApp.py goes on with
\* analysis_data still None
LoopExhausted ==
    /\ pc = "loop"
    /\ RangeExhausted(attempt, max_retries)
    /\ pc' = "done"
    /\ result' = "failed"
    /\ error' = IF loop = "newApp" THEN "none" ELSE ERR_MAX
    /\ UNCHANGED <<loop, prompt, schema, max_retries, attempt, data,
                   raw_response_for_debugging, final_error_message, calls,
                   pauses, reports, all_raw_responses_for_debugging,
                   cancel_requested_at>>
    /\ UNCHANGED <<cleanVars, countVars, mainVars, extractVars>>

(***************************************************************************)
(* main of app.py and app2.py: the three analyses, one call of             *)
(* call_gemini_with_retry each, merged into final_combined_output.         *)
(***************************************************************************)
MaxMainRetries == 3

SectionOrder == <<"biomarkers", "four_pillars", "supplements">>

\* the members of a parsed object as a dict: each top-level key with the
\* text of its value; i is at the opening quote of a key
RECURSIVE MembersFrom(_, _)
MembersFrom(doc, i) ==
    IF i > Len(doc) \/ doc[i] # Q THEN <<>>
    ELSE LET k == ScanString(doc, i + 1)
             e == ParseValue(doc, k + 1)
             rest == IF e <= Len(doc) /\ doc[e] = ","
                     THEN MembersFrom(doc, e + 1)
                     ELSE <<>>
         IN  rest @@ (SubSeq(doc, i + 1, k - 2) :> SubSeq(doc, k + 1, e - 1))

AsDict(doc) == IF IsObject(doc) THEN MembersFrom(doc, 2) ELSE <<>>

\* if data: final_combined_output.update(data), when the call has returned
Merge(output, res, doc) ==
    IF res = "success" /\ TruthyData(doc) /\ ~UpdateRaises(doc)
    THEN AsDict(doc) @@ output
    ELSE output

\* what the model can answer to a call of main
ObjectWith2(key) == <<"{", Q>> \o key \o <<Q, ":", "2", "}">>

MainResponseTexts ==
    {<<"{">>, <<"{", "}">>, <<"1">>, ObjectWith(LAB_ANALYSIS),
     ObjectWith(FOUR_PILLARS), ObjectWith(SUPPLEMENTS),
     ObjectWith2(LAB_ANALYSIS)}

InitMain ==
    /\ loop \in {"app", "app2"}
    /\ section = 1
    /\ prompt = SectionOrder[1]
    /\ schema = TemplateSchema(prompt)
    /\ max_retries \in -1..MaxMainRetries
    /\ attempt = 0
    /\ pc = "loop"
    /\ result = "none"
    /\ error = "none"
    /\ data = <<>>
    /\ raw_response_for_debugging = <<>>
    /\ final_error_message = ""
    /\ calls = <<>>
    /\ pauses = <<>>
    /\ reports = <<>>
    /\ all_raw_responses_for_debugging = <<>>
    /\ cancel_requested_at = None
    /\ final_combined_output = <<>>
    /\ invocations = 0
    /\ attempted = <<SectionOrder[1]>>
    /\ IdleClean
    /\ IdleCounts
    /\ IdleExtract

\* the model returns a text to a call of main
MainAttemptText ==
    \E text \in MainResponseTexts :
        Iteration([kind |-> "text", text |-> text], Outcome(loop, schema, text))

\* the call of a section has returned or raised: the rest of its try block
\* or its except branch, then the next section, whatever the outcome
SectionDone ==
    /\ pc = "done"
    /\ section \in 1..3
    /\ final_combined_output' = Merge(final_combined_output, result, data)
    /\ invocations' = invocations + Len(calls)
    /\ section' = section + 1
    /\ IF section < 3
       THEN /\ prompt' = SectionOrder[section + 1]
            /\ schema' = TemplateSchema(SectionOrder[section + 1])
            /\ attempted' = Append(attempted, SectionOrder[section + 1])
            /\ pc' = "loop"
       ELSE /\ UNCHANGED <<prompt, schema, attempted>>
            /\ pc' = "finished"
    /\ attempt' = 0
    /\ result' = "none"
    /\ error' = "none"
    /\ data' = <<>>
    /\ raw_response_for_debugging' = <<>>
    /\ calls' = <<>>
    /\ pauses' = <<>>
    /\ reports' = <<>>
    /\ UNCHANGED <<loop, max_retries, final_error_message,
                   all_raw_responses_for_debugging, cancel_requested_at>>
    /\ UNCHANGED <<cleanVars, countVars, extractVars>>

NextMain == MainAttemptText \/ AttemptRaises \/ LoopExhausted \/ SectionDone

SpecMain == InitMain /\ [][NextMain]_vars

NextRetry == AttemptText \/ AttemptRaises \/ LoopExhausted \/ RequestCancel

SpecRetry == InitRetry /\ [][NextRetry]_vars

\* the loops are sequential code: while the model call and time.sleep
\* return, the step that is due is taken
SpecRetryFair == SpecRetry /\ WF_vars(NextRetry)

Last(seq) == seq[Len(seq)]

\* an answer that is non-empty and, cleaned by the loop's cleaner, no JSON
Malformed(lp, call) ==
    /\ call.kind = "text"
    /\ call.text # <<>>
    /\ ~json_loads(clean_json_string(CleanerOf(lp), call.text)).ok

\* an answer that cleans, parses and, in app2.py, validates
Good(lp, sch, call) ==
    /\ call.kind = "text"
    /\ call.text # <<>>
    /\ json_loads(clean_json_string(CleanerOf(lp), call.text)).ok
    /\ lp = "app2" =>
           validate_json(
               json_loads(clean_json_string(CleanerOf(lp), call.text)).doc, sch)

(***************************************************************************)
(* C1: Retry termination: while every answer of the model is non-empty     *)
(* text that is no JSON after cleaning, call_gemini_with_retry with        *)
(* max_retries = N >= 1 has ended exactly when it has made N invocations,  *)
(* never makes more, and ends in the failure raised by the handler of the  *)
(* last attempt (an exception; no data is returned).                       *)
(***************************************************************************)
C1_RetryTermination ==
    (/\ loop \in CallGeminiLoops
     /\ max_retries >= 1
     /\ \A i \in 1..Len(calls) : Malformed(loop, calls[i]))
    => /\ Len(calls) <= max_retries
       /\ (pc = "done") = (Len(calls) = max_retries)
       /\ pc = "done" => (result = "failed" /\ error \in Raised(ERR_JSON))

C1_Witness ==
    /\ loop \in CallGeminiLoops
    /\ max_retries >= 2
    /\ \A i \in 1..Len(calls) : Malformed(loop, calls[i])
    /\ Len(calls) = max_retries
    /\ pc = "done"
    /\ result = "failed"

(***************************************************************************)
(* C2: Fast success path: once an attempt's answer cleans, parses and      *)
(* (app2.py) validates, the loop has ended in success with that answer's   *)
(* data, no pause follows it, and no attempt follows it; a good first      *)
(* answer means exactly one invocation.                                    *)
(***************************************************************************)
C2_FastSuccess ==
    /\ \A i \in 1..Len(calls) :
           Good(loop, schema, calls[i]) =>
               /\ i = Len(calls)
               /\ pc = "done"
               /\ result = "success"
               /\ data = ParsedData(loop, calls[i].text)
               /\ pauses[i] = 0
    /\ (calls # <<>> /\ Good(loop, schema, calls[1])) => Len(calls) = 1

C2_Witness ==
    /\ Len(calls) = 2
    /\ Good(loop, schema, calls[2])
    /\ attempt < max_retries - 1
    /\ result = "success"

(***************************************************************************)
(* C9: Required-key check: a parsed answer that lacks the section its call *)
(* asks for is never returned as success by call_gemini_with_retry of      *)
(* app.py and app2.py.                                                     *)
(***************************************************************************)
C9_RequiredKeyCheck ==
    (loop \in {"app", "app2"} /\ result = "success") =>
        RequiredSection(prompt) \in TopLevelKeys(data)

(***************************************************************************)
(* C10: Policy block is not retried, as claimed: in call_gemini_with_retry *)
(* a blocked answer is the last invocation of the call, which has failed.  *)
(***************************************************************************)
C10_BlockNotRetried ==
    loop \in CallGeminiLoops =>
        \A i \in 1..Len(calls) :
            calls[i].kind = "blocked" =>
                (i = Len(calls) /\ pc = "done" /\ result = "failed")

(***************************************************************************)
(* C10 as amended: call_gemini_with_retry treats a policy block like any   *)
(* other exception.  After a blocked answer with attempts remaining the    *)
(* loop is still running, with the next attempt due; only a block on the   *)
(* last attempt ends the call, with the provider's exception raised.       *)
(***************************************************************************)
C10_BlockRetried ==
    (loop \in CallGeminiLoops /\ calls # <<>> /\ Last(calls).kind = "blocked")
    => IF Len(calls) < max_retries
       THEN pc = "loop" /\ result = "none" /\ attempt = Len(calls)
       ELSE pc = "done" /\ result = "failed" /\ error = "blocked"

C10_Witness ==
    /\ loop \in CallGeminiLoops
    /\ Len(calls) >= 2
    /\ calls[1].kind = "blocked"
    /\ pauses[1] > 0

\* an answer that parses but that validate_json rejects (app2.py)
SchemaViolating(lp, sch, call) ==
    /\ call.kind = "text"
    /\ Outcome(lp, sch, call.text) = "schema_invalid"

(***************************************************************************)
(* C11: Malformed or schema-violating attempts are retried: in             *)
(* call_gemini_with_retry, after attempt i < max_retries has ended because *)
(* its cleaned text is no JSON or fails the schema, attempt i + 1 has been *)
(* made or is the next step of the loop, and the prompt of the call never  *)
(* changes; when attempt max_retries fails this way it is the last         *)
(* invocation, no data is returned, and the call ends only in failure.     *)
(***************************************************************************)
C11_MalformedRetried ==
    /\ [](loop \in CallGeminiLoops =>
            \A i \in 1..Len(calls) :
                (Malformed(loop, calls[i])
                    \/ SchemaViolating(loop, schema, calls[i])) =>
                    /\ i < max_retries =>
                           \/ i < Len(calls)
                           \/ pc = "loop" /\ attempt = i /\ result = "none"
                    /\ i = max_retries =>
                           /\ i = Len(calls)
                           /\ result # "success"
                           /\ data = <<>>
                           /\ pc = "loop" => attempt = max_retries
                           /\ pc = "done" => result = "failed")
    /\ [][prompt' = prompt]_vars

C11_Witness ==
    /\ loop = "app2"
    /\ max_retries = 3
    /\ Len(calls) = 3
    /\ SchemaViolating(loop, schema, calls[1])
    /\ Malformed(loop, calls[2])
    /\ SchemaViolating(loop, schema, calls[3])
    /\ pc = "done"
    /\ result = "failed"

\* what the caller holds of the raw answers once the loop has ended: the
\* entry of its section in all_raw_responses_for_debugging (app.py, app2.py),
\* nothing in monthly_report.py, whose main assigns its variable only from
\* the returned pair, and the loop's own variable in newApp.py
FailureRaw ==
    CASE loop \in {"app", "app2"} ->
             IF prompt \in DOMAIN all_raw_responses_for_debugging
             THEN {all_raw_responses_for_debugging[prompt]}
             ELSE {}
      [] loop = "monthly" -> {}
      [] loop = "newApp" -> {raw_response_for_debugging}

\* the error detail the caller gets: the exception of call_gemini_with_retry,
\* final_error_message in newApp.py
FailureDetail == IF loop = "newApp" THEN final_error_message ELSE error

(***************************************************************************)
(* C12: Exhausted-retries failure exposes the last attempt: when a retry   *)
(* loop has ended in failure and its last attempt returned text (malformed,*)
(* empty or schema-violating), the caller's debug record holds the raw     *)
(* text of that attempt and the failure handed to the caller is the error  *)
(* detail of that attempt.                                                 *)
(***************************************************************************)
C12_LastAttemptExposed ==
    (/\ pc = "done"
     /\ result = "failed"
     /\ calls # <<>>
     /\ Last(calls).kind = "text")
    => /\ FailureRaw = {Last(calls).text}
       /\ FailureDetail = Last(reports)

\* an answer whose cleaned text is empty once trimmed: an empty text, a
\* text of whitespace only, a text of fence markers only
CleansToEmpty(lp, call) ==
    /\ call.kind = "text"
    /\ strip(clean_json_string(CleanerOf(lp), call.text)) = <<>>

(***************************************************************************)
(* C13: EmptyResponse is distinct from MalformedResponse: every attempt    *)
(* whose cleaned and trimmed text is empty has been reported by its retry  *)
(* loop as an empty response, never as a JSON parse failure.               *)
(***************************************************************************)
C13_EmptyDistinct ==
    \A i \in 1..Len(calls) :
        CleansToEmpty(loop, calls[i]) => reports[i] = ERR_EMPTY

(***************************************************************************)
(* C14: Termination: whatever the outcomes of the model invocations        *)
(* (valid, empty, malformed, schema-invalid, exception), as long as each   *)
(* invocation returns, every retry loop eventually reaches a terminal      *)
(* state, success or failure.                                              *)
(***************************************************************************)
C14_Termination == <>(pc = "done" /\ result \in {"success", "failed"})

C14_Witness ==
    /\ loop = "app2"
    /\ Len(calls) = 3
    /\ calls[1].text = <<>> /\ calls[1].kind = "text"
    /\ calls[2].kind = "invoke_error"
    /\ SchemaViolating(loop, schema, calls[3])
    /\ pc = "done"
    /\ result = "failed"

(***************************************************************************)
(* C15: Count mismatches never block success: for every parsed document    *)
(* with a lab_analysis, whatever its reported counts and whether or not it *)
(* has biomarker_categories_summary or detailed_biomarkers, the            *)
(* post-processing pass has ended without an error and the document has    *)
(* been rendered as the result.  The lab_analysis is taken to be non-empty:*)
(* whether app.py renders an output whose lab_analysis is {} depends on    *)
(* its other sections.                                                     *)
(***************************************************************************)
C15_MismatchNeverBlocks ==
    (passes > 0 /\ Truthy(parsed)) => (~post_error /\ rendered)

\* an answer whose text is empty
Empty(call) == call.kind = "text" /\ call.text = <<>>

(***************************************************************************)
(* C16: Empty responses are retried: in every retry loop, after an attempt *)
(* whose answer is the empty text and which is not the last of the budget, *)
(* another model invocation has been made or is the next step of the loop. *)
(***************************************************************************)
C16_EmptyRetried ==
    \A i \in 1..Len(calls) :
        (Empty(calls[i]) /\ i < max_retries) =>
            \/ i < Len(calls)
            \/ pc = "loop" /\ attempt = i /\ result = "none"

(***************************************************************************)
(* C17: The cleaner does not alter semantic content: cleaning an input     *)
(* that is already a valid JSON document without fences gives a text that  *)
(* parses to the same document, also when a string value of it holds a     *)
(* comma followed by optional whitespace and a closing brace or bracket.   *)
(***************************************************************************)
C17_SemanticContentKept ==
    (cleaned /\ form = "plain") =>
        /\ json_loads(stripped_string).ok
        /\ json_loads(stripped_string).doc = json_loads(json_string).doc

(***************************************************************************)
(* C18: Only the outermost fences are stripped: a fence marker that stands *)
(* inside the text, not at its very start or very end, is still in the     *)
(* cleaned text with the text around it: the part of the input between the *)
(* outermost fences, or all of it when it has none, is a contiguous part   *)
(* of the output.                                                          *)
(***************************************************************************)
C18_OutermostFencesOnly ==
    (cleaned /\ form = "interior") => Contains(stripped_string, body)

\* one record per attempt made: its raw text and the reason of its failure
AttemptRecords ==
    [i \in 1..Len(calls) |-> [raw |-> calls[i].text, reason |-> reports[i]]]

\* the records the caller has once the loop has failed: one error detail,
\* with a raw text where the caller holds one
FailureRecords ==
    IF FailureRaw = {}
    THEN <<[reason |-> FailureDetail]>>
    ELSE <<[raw |-> CHOOSE t \in FailureRaw : TRUE, reason |-> FailureDetail]>>

\* the text of the last attempt that returned one, "" when none did
RECURSIVE LastText(_)
LastText(cs) ==
    IF cs = <<>> THEN <<>>
    ELSE IF Last(cs).kind = "text" THEN Last(cs).text
    ELSE LastText(SubSeq(cs, 1, Len(cs) - 1))

\* the loop has used up its attempts and failed
Exhausted ==
    /\ pc = "done"
    /\ result = "failed"
    /\ max_retries >= 1
    /\ Len(calls) = max_retries

(***************************************************************************)
(* C19: Every attempt is recorded, as claimed: when a retry loop has ended *)
(* in exhausted retries after N attempts, the failure the caller gets      *)
(* carries N records, one per attempt, each with the raw text and the      *)
(* failure reason of that attempt.                                         *)
(***************************************************************************)
C19_EveryAttemptRecorded == Exhausted => FailureRecords = AttemptRecords

(***************************************************************************)
(* C19 as amended: only the last attempt is kept.  When a retry loop has   *)
(* ended in exhausted retries after N attempts, each of the N attempts was *)
(* reported with its failure reason when it happened, but the failure the  *)
(* caller gets carries a single record: one error detail, which is the     *)
(* reason of the last attempt, the exception of its handler or 'Max        *)
(* retries reached', and no raw text of an earlier attempt; the loop's     *)
(* raw_response_for_debugging holds only the text of the last attempt that *)
(* returned one.                                                           *)
(***************************************************************************)
C19_LastAttemptOnly ==
    Exhausted =>
        /\ Len(reports) = max_retries
        /\ \A i \in 1..Len(reports) : reports[i] # "none"
        /\ Len(FailureRecords) = 1
        /\ FailureDetail \in Raised(Last(reports)) \cup {ERR_MAX}
        /\ FailureRaw \subseteq {LastText(calls)}
        /\ raw_response_for_debugging = LastText(calls)

C19_Witness ==
    /\ Exhausted
    /\ loop = "app"
    /\ max_retries = 3
    /\ Malformed(loop, calls[1])
    /\ Empty(calls[2])
    /\ Malformed(loop, calls[3])
    /\ calls[1].text # calls[3].text

(***************************************************************************)
(* C20: Fixed inter-attempt delay: in call_gemini_with_retry there is a    *)
(* pause between any two consecutive model invocations, the pauses of a    *)
(* call all have the same total length whatever the failure before them    *)
(* (malformed JSON, empty response, other exception, schema violation),    *)
(* and when the call has ended no pause was taken after its last attempt,  *)
(* failed or successful.                                                   *)
(***************************************************************************)
C20_FixedDelay ==
    loop \in CallGeminiLoops =>
        /\ \A i \in 1..(Len(calls) - 1) :
               /\ pauses[i] > 0
               /\ pauses[i] = pauses[1]
        /\ (pc = "done" /\ calls # <<>>) => Last(pauses) = 0

TimedOut(call) == call.kind = "invoke_error"

(***************************************************************************)
(* C22: Timed-out invocations are retryable, as claimed: in every retry    *)
(* loop, after an attempt whose invocation timed out and which is not the  *)
(* last of the budget, another attempt has been made or is the next step;  *)
(* only a timeout on the last attempt ends the loop, in failure.           *)
(***************************************************************************)
C22_TimeoutRetried ==
    \A i \in 1..Len(calls) :
        TimedOut(calls[i]) =>
            /\ i < max_retries =>
                   \/ i < Len(calls)
                   \/ pc = "loop" /\ attempt = i /\ result = "none"
            /\ i = max_retries => (pc = "done" /\ result = "failed")

(***************************************************************************)
(* C22 as amended: call_gemini_with_retry retries a timed-out invocation   *)
(* while attempts remain, and on the last attempt ends by re-raising the   *)
(* invocation's own exception; the loop of newApp.py does not retry it:    *)
(* there a timed-out invocation is the last one, whatever the budget left, *)
(* and the analysis has failed with that exception as final error message. *)
(***************************************************************************)
C22_TimeoutRetriedByCallGemini ==
    \A i \in 1..Len(calls) :
        TimedOut(calls[i]) =>
            IF loop \in CallGeminiLoops
            THEN /\ i < max_retries =>
                        \/ i < Len(calls)
                        \/ pc = "loop" /\ attempt = i /\ result = "none"
                 /\ i = max_retries =>
                        /\ i = Len(calls)
                        /\ pc = "done"
                        /\ result = "failed"
                        /\ error = "invoke_error"
            ELSE /\ i = Len(calls)
                 /\ pc = "done"
                 /\ result = "failed"
                 /\ final_error_message = "invoke_error"

C22_Witness ==
    /\ loop \in CallGeminiLoops
    /\ Len(calls) = 3
    /\ TimedOut(calls[1])
    /\ TimedOut(calls[2])
    /\ Good(loop, schema, calls[3])
    /\ result = "success"

(***************************************************************************)
(* C23: No merging across attempts: when a retry loop has succeeded, the   *)
(* data it returns is what the text of the successful, last attempt parses *)
(* to after cleaning, and the raw response returned with it (and entered   *)
(* in the caller's debug record) is that text alone; nothing of an earlier *)
(* attempt's response is part of either.                                   *)
(***************************************************************************)
C23_NoMergingAcrossAttempts ==
    result = "success" =>
        /\ Last(calls).kind = "text"
        /\ data = json_loads(clean_json_string(CleanerOf(loop),
                                               Last(calls).text)).doc
        /\ raw_response_for_debugging = Last(calls).text
        /\ loop \in {"app", "app2"} =>
               all_raw_responses_for_debugging = (prompt :> Last(calls).text)

C23_Witness ==
    /\ result = "success"
    /\ Len(calls) = 3
    /\ Malformed(loop, calls[1])
    /\ calls[2].kind = "text"
    /\ calls[2].text # <<>>
    /\ ~Good(loop, schema, calls[2])
    /\ calls[1].text # calls[2].text
    /\ calls[3].text # calls[2].text

\* N invocations at most, none for N <= 0
Budget(max) == IF max > 0 THEN max ELSE 0

(***************************************************************************)
(* C24: Invocation bound: whatever the outcomes of the model, a call of    *)
(* call_gemini_with_retry with max_retries = N makes at most N model       *)
(* invocations; with N <= 0 it makes none and can end only in the 'Max     *)
(* retries reached' failure; the three calls of main make at most 3 * N    *)
(* invocations together.                                                   *)
(***************************************************************************)
C24_InvocationBound ==
    /\ Len(calls) <= Budget(max_retries)
    /\ max_retries <= 0 =>
           /\ result # "success"
           /\ pc = "done" => (result = "failed" /\ error = ERR_MAX)
    /\ invocations + Len(calls) <= 3 * Budget(max_retries)

C24_Witness ==
    /\ pc = "finished"
    /\ max_retries = 3
    /\ invocations = 9

(***************************************************************************)
(* C25: Only validated data is returned: call_gemini_with_retry of app2.py *)
(* returns data only from an attempt whose document validate_json accepted;*)
(* an attempt whose document it rejected never ends the call in success,   *)
(* and when it is the last attempt the call ends in the 'Max retries       *)
(* reached' failure.                                                       *)
(***************************************************************************)
C25_OnlyValidatedReturned ==
    loop = "app2" =>
        /\ result = "success" =>
               /\ data = ParsedData(loop, Last(calls).text)
               /\ validate_json(data, schema)
        /\ \A i \in 1..Len(calls) :
               (/\ calls[i].kind = "text"
                /\ calls[i].text # <<>>
                /\ json_loads(clean_json_string(CleanerOf(loop),
                                                calls[i].text)).ok
                /\ ~validate_json(ParsedData(loop, calls[i].text), schema))
               => /\ i = Len(calls) => result # "success"
                  /\ (i = max_retries /\ pc = "done") =>
                         (result = "failed" /\ error = ERR_MAX /\ data = <<>>)

C25_Witness ==
    /\ loop = "app2"
    /\ max_retries = 2
    /\ Len(calls) = 2
    /\ Good(loop, schema, calls[1]) = FALSE
    /\ SchemaViolating(loop, schema, calls[2])
    /\ pc = "done"
    /\ error = ERR_MAX

(***************************************************************************)
(* C26: Section isolation: main attempts the three analyses in the order   *)
(* Biomarkers, Four Pillars, Supplements whichever of them failed, all     *)
(* three by the time it has finished; a section whose call fails adds no   *)
(* key to final_combined_output and no entry to                            *)
(* all_raw_responses_for_debugging, and leaves what the other sections     *)
(* put there as it is.                                                     *)
(***************************************************************************)
C26_SectionIsolation ==
    /\ [](/\ section \in 1..3 =>
                (attempted = SubSeq(SectionOrder, 1, section)
                    /\ prompt = SectionOrder[section])
          /\ pc = "finished" => attempted = SectionOrder)
    /\ [][(result = "failed" \/ result' = "failed") =>
              /\ final_combined_output' = final_combined_output
              /\ all_raw_responses_for_debugging'
                     = all_raw_responses_for_debugging]_vars

C26_Witness ==
    /\ pc = "finished"
    /\ DOMAIN all_raw_responses_for_debugging = {"four_pillars"}
    /\ DOMAIN final_combined_output = {FOUR_PILLARS}
    /\ invocations = 3 * max_retries
    /\ max_retries = 3

(***************************************************************************)
(* C27: No cross-section overwrite: a top-level key that a section has put *)
(* in final_combined_output keeps its value through the merges of the      *)
(* later sections, whatever keys their responses hold.                     *)
(***************************************************************************)
C27_NoCrossSectionOverwrite ==
    [][\A k \in DOMAIN final_combined_output :
           /\ k \in DOMAIN final_combined_output'
           /\ final_combined_output'[k] = final_combined_output[k]]_vars

(***************************************************************************)
(* C28: Diagnostics come from one attempt: when the loop of newApp.py has  *)
(* ended in failure, raw_response_for_debugging is the raw text of the     *)
(* last attempt (none when that attempt raised before it had a text) and   *)
(* final_error_message is the error of that same attempt; the raw text of  *)
(* an earlier attempt is never held together with a later attempt's error. *)
(***************************************************************************)
C28_DiagnosticsFromOneAttempt ==
    (loop = "newApp" /\ pc = "done" /\ result = "failed" /\ calls # <<>>) =>
        /\ final_error_message = Last(reports)
        /\ raw_response_for_debugging = Last(calls).text

(***************************************************************************)
(* C29: Reconciliation is idempotent on every document: whatever document  *)
(* was parsed (an empty list with a non-zero count, a missing count, a     *)
(* missing summary included), a pass that runs after the first pass leaves *)
(* lab_analysis as the first pass left it.                                 *)
(***************************************************************************)
C29_IdempotentOnEveryDocument ==
    [][passes >= 1 => lab_analysis' = lab_analysis]_vars

C29_Witness ==
    /\ passes = 2
    /\ main_app = "newApp"
    /\ ReportedCount(parsed) = None
    /\ ~HasSummary(parsed)
    /\ post_error = FALSE
    /\ lab_analysis # parsed
    /\ lab_analysis = ReconcileNewApp(parsed)

(***************************************************************************)
(* File handling of main (app.py and app2.py have the same code).  A text  *)
(* is a sequence of tokens; a literal the code searches for ("[Error",     *)
(* "[Unsupported") is a token of its own wherever it occurs, so that the   *)
(* substring test of the code is Contains on token sequences.              *)
(***************************************************************************)
MaxFiles == 2

\* the types st.file_uploader accepts; ".xls" takes the branch of ".xlsx",
\* ".csv" that of ".txt"
Extensions == {".pdf", ".docx", ".xlsx", ".txt"}

\* what a readable file holds: plain text, or text that itself has "[Error"
FileContents ==
    {<<"glucose 90">>, <<"analyser printed ", "[Error", " 5]">>}

\* an upload: ok is readable, corrupt makes the library of its type raise,
\* no_bytes makes getvalue() raise
UploadedFiles ==
    {[name |-> "upload" \o e, ext |-> e, state |-> "ok", content |-> c] :
         e \in Extensions, c \in FileContents}
    \cup {[name |-> "upload" \o e, ext |-> e, state |-> st,
           content |-> <<"glucose 90">>] :
              e \in Extensions, st \in {"corrupt", "no_bytes"}}

ERR_PDF == <<"[Error", " Processing PDF File]">>

ERR_DOCX == <<"[Error", " Processing DOCX File]">>

ERR_FILE == <<"[Error", " Processing File]">>

UNSUPPORTED == <<"[Unsupported", " File Type Uploaded]">>

ExcelMarker(name) ==
    <<"[Could not automatically process Excel file ", name,
      " - Please try pasting the text or saving as PDF/TXT.]">>

extract_text_from_file(uploaded_file) ==
    IF uploaded_file.state = "no_bytes" THEN ERR_FILE
    ELSE CASE uploaded_file.ext = ".pdf" ->
                  IF uploaded_file.state = "corrupt" THEN ERR_PDF
                  ELSE uploaded_file.content \o <<NL>>
           [] uploaded_file.ext = ".docx" ->
                  IF uploaded_file.state = "corrupt" THEN ERR_DOCX
                  ELSE uploaded_file.content \o <<NL>>
           [] uploaded_file.ext = ".xlsx" ->
                  IF uploaded_file.state = "corrupt"
                  THEN ExcelMarker(uploaded_file.name)
                  ELSE <<"--- Sheet: ", "Sheet1", " ---", NL>>
                       \o uploaded_file.content \o <<NL, NL>>
           [] uploaded_file.ext = ".txt" -> uploaded_file.content
           [] OTHER -> UNSUPPORTED

\* "[Error" in extracted_text or "[Unsupported" in extracted_text
LabReportRejected(extracted_text) ==
    Contains(extracted_text, <<"[Error">>)
    \/ Contains(extracted_text, <<"[Unsupported">>)

\* "[Error" in raw_health_assessment_input
HealthAssessmentRejected(extracted_text) ==
    Contains(extracted_text, <<"[Error">>)

LabReportBlock(file) ==
    <<"--- Start Lab Report: ", file.name, " ---", NL>>
    \o extract_text_from_file(file)
    \o <<NL, "--- End Lab Report: ", file.name, " ---">>

\* "\n\n".join(raw_lab_report_inputs)
RECURSIVE JoinBlocks(_)
JoinBlocks(blocks) ==
    IF blocks = <<>> THEN <<>>
    ELSE IF Len(blocks) = 1 THEN blocks[1]
    ELSE blocks[1] \o <<NL, NL>> \o JoinBlocks(Tail(blocks))

lab_report_section_formatted(blocks) ==
    IF JoinBlocks(blocks) # <<>>
    THEN <<NL, "Here is the user's Lab Report text (potentially multiple reports combined):", NL>>
         \o JoinBlocks(blocks) \o <<NL>>
    ELSE <<"No Lab Report text was provided. Analysis will be based solely on Health Assessment data.">>

\* BASE_PROMPT_COMMON.format(...) + the instructions of the section
SectionPrompt(part, health, blocks) ==
    <<"BASE_PROMPT_COMMON", "Health Assessment Text: ">> \o health
    \o <<NL, "Lab Report Text: ">> \o lab_report_section_formatted(blocks)
    \o <<NL, "--- Specific Instructions ---", part>>

InitExtract ==
    /\ lab_report_files \in SeqsUpTo(UploadedFiles, MaxFiles)
    /\ health_assessment_file \in UploadedFiles
    /\ file_index = 1
    /\ raw_lab_report_inputs = <<>>
    /\ raw_health_assessment_input = <<>>
    /\ stage = "labs"
    /\ prompts_sent = <<>>
    /\ IdleClean
    /\ IdleCounts
    /\ IdleRetry
    /\ IdleMain

\* one pass of: for file in lab_report_files
ExtractLabReport ==
    /\ stage = "labs"
    /\ file_index <= Len(lab_report_files)
    /\ raw_lab_report_inputs' =
           IF LabReportRejected(
                  extract_text_from_file(lab_report_files[file_index]))
           THEN raw_lab_report_inputs
           ELSE Append(raw_lab_report_inputs,
                       LabReportBlock(lab_report_files[file_index]))
    /\ file_index' = file_index + 1
    /\ UNCHANGED <<lab_report_files, health_assessment_file,
                   raw_health_assessment_input, stage, prompts_sent>>
    /\ UNCHANGED <<cleanVars, countVars, retryVars, mainVars>>

\* after the loop: extract the health assessment, st.stop() on "[Error"
ExtractHealthAssessment ==
    /\ stage = "labs"
    /\ file_index > Len(lab_report_files)
    /\ raw_health_assessment_input' =
           extract_text_from_file(health_assessment_file)
    /\ stage' = IF HealthAssessmentRejected(
                       extract_text_from_file(health_assessment_file))
                THEN "stopped" ELSE "sections"
    /\ UNCHANGED <<lab_report_files, health_assessment_file, file_index,
                   raw_lab_report_inputs, prompts_sent>>
    /\ UNCHANGED <<cleanVars, countVars, retryVars, mainVars>>

\* the next section's prompt is built and the model invoked with it
SendPrompt ==
    /\ stage = "sections"
    /\ prompts_sent' =
           Append(prompts_sent,
                  SectionPrompt(SectionOrder[Len(prompts_sent) + 1],
                                raw_health_assessment_input,
                                raw_lab_report_inputs))
    /\ stage' = IF Len(prompts_sent) + 1 = Len(SectionOrder)
                THEN "finished" ELSE "sections"
    /\ UNCHANGED <<lab_report_files, health_assessment_file, file_index,
                   raw_lab_report_inputs, raw_health_assessment_input>>
    /\ UNCHANGED <<cleanVars, countVars, retryVars, mainVars>>

NextExtract == ExtractLabReport \/ ExtractHealthAssessment \/ SendPrompt

SpecExtract == InitExtract /\ [][NextExtract]_vars

(***************************************************************************)
(* C30: Extraction failure markers never reach the model: the marker       *)
(* extract_text_from_file returned for a lab report is in no prompt the    *)
(* model was invoked with, and when it returned a marker for the health    *)
(* assessment the run is stopped and the model is never invoked.           *)
(***************************************************************************)
C30_MarkersNeverReachModel ==
    LET ExtractionFailed(file) ==
            extract_text_from_file(file) \in
                {ERR_PDF, ERR_DOCX, ERR_FILE, UNSUPPORTED,
                 ExcelMarker(file.name)}
    IN  /\ \A i \in 1..Len(lab_report_files) :
               ExtractionFailed(lab_report_files[i]) =>
                   \A k \in 1..Len(prompts_sent) :
                       ~Contains(prompts_sent[k],
                                 extract_text_from_file(lab_report_files[i]))
        /\ (stage # "labs" /\ ExtractionFailed(health_assessment_file)) =>
               (stage = "stopped" /\ prompts_sent = <<>>)
====
